---- MODULE Spec2Model ----
(***************************************************************************)
(* Model of the sequence batch scheduler of                                *)
(* src/sequence_batch_scheduler.cc: the scheduler facade (Enqueue,         *)
(* ReleaseBatchSlot), the per-batcher SequenceBatch (Enqueue, the          *)
(* SchedulerThread loop) and the completion function handed to the runner. *)
(*                                                                         *)
(* Granularity.  State guarded by the scheduler mutex (mu_ of the          *)
(* scheduler) is only touched inside its critical sections, so each such   *)
(* section is one step.  The worker holds its batch mutex over a whole     *)
(* sweep and takes the scheduler mutex inside it once per ending sequence, *)
(* so a sweep is one step per slot: other threads can run scheduler        *)
(* critical sections between two slots of a sweep, but cannot touch the    *)
(* batcher.  The debug delay (TRTSERVER_DELAY_SCHEDULER) is off.           *)
(***************************************************************************)
EXTENDS Integers, Sequences, FiniteSets, TLC

(* ---- bounds of the model ---- *)
MaxRunnerCnt == 2
MaxBatchSize == 2
MaxSlotCnt == 2
MaxCid == 2
MaxEnq == 3
MaxProducers == 2
MaxReqBatch == 2
MaxErr == 2
MaxExitEnq == 2

VARIABLES
  runner_cnt,                  \* Create's runner_cnt
  batch_size,                  \* max(1, config.max_batch_size())
  ready_batch_slots_,          \* the Ready-Slot Pool
  sequence_to_batchslot_map_,  \* correlation ID -> BatchSlot
  sequence_to_backlog_map_,    \* correlation ID -> backlog deque (its handle)
  backlog_queues_,             \* list of backlog deques (handles), head first
  deques,                      \* the shared backlog deques: handle -> payloads
  queues_,                     \* per batcher, per slot: queue of payloads
  active_slots_,               \* per batcher, per slot
  max_active_slot_,            \* per batcher
  null_request_header_,        \* per batcher: header kept for placeholders
  scheduler_idle_,             \* per batcher
  scheduler_thread_exit_,      \* per batcher
  exit_sync,                   \* per batcher: the worker locked mu_ after the flag was set
  pc,                          \* per worker: position in SchedulerThread
  slot,                        \* per worker: loop variable of the sweep
  max_slot,                    \* per worker: local max_slot
  payloads,                    \* per worker: the batch being assembled
  adjust_max_active_slot,      \* per worker: local flag
  inflight,                    \* Enqueue calls between mu_ unlock and batcher Enqueue
  ncalls,                      \* number of Enqueue calls made so far
  errors,                      \* OnComplete(InvalidArgument) calls made by Enqueue
  accepted,                    \* payloads accepted by Enqueue, in call order
  log,                         \* the OnSchedule calls, in call order
  backlogged,                  \* ids of the payloads Enqueue put in a backlog queue
  cq_pc,                       \* OnCompleteQueuedPayloads: position
  cq_payloads,                 \* ... the captured batch
  cq_status,                   \* ... its 'status' parameter (it is assigned to)
  cq_arg,                      \* ... the status the runner passed
  cq_i,                        \* ... index of the second loop
  cq_found_success,            \* ... local found_success
  cq_exec,                     \* ... per payload: the model execution count
  cq_calls,                    \* ... the complete_function_ calls, in order
  lk_mu,                       \* owner of SequenceBatchScheduler::mu_ (0: free)
  lk_batch_mu,                 \* per batcher: owner of SequenceBatch::mu_ (0: free)
  lk_ppc,                      \* per producer thread: position in Enqueue
  lk_target,                   \* per producer thread: the batcher it was routed to
  lk_wpc                       \* per worker thread: position in SchedulerThread

schedVars == <<ready_batch_slots_, sequence_to_batchslot_map_,
               sequence_to_backlog_map_, backlog_queues_, deques>>
batchVars == <<queues_, active_slots_, max_active_slot_, null_request_header_,
               scheduler_idle_, scheduler_thread_exit_, exit_sync>>
workerVars == <<pc, slot, max_slot, payloads, adjust_max_active_slot>>
histVars == <<ncalls, errors, accepted, log, backlogged>>
confVars == <<runner_cnt, batch_size>>
cqVars == <<cq_pc, cq_payloads, cq_status, cq_arg, cq_i, cq_found_success,
            cq_exec, cq_calls>>
lockVars == <<lk_mu, lk_batch_mu, lk_ppc, lk_target, lk_wpc>>
vars == <<confVars, schedVars, batchVars, workerVars, inflight, histVars,
          cqVars, lockVars>>

(* ---- values ---- *)
Batchers == 0 .. (runner_cnt - 1)
Slots == 0 .. (batch_size - 1)
BatchSlot(b, s) == [batcher_idx_ |-> b, slot_ |-> s]
AllBatchSlots == {BatchSlot(b, s) : b \in Batchers, s \in Slots}

\* A request header as Enqueue reads it.
Requests ==
  [batch_size : 1 .. MaxReqBatch, correlation_id : 0 .. MaxCid,
   seq_start : BOOLEAN, seq_end : BOOLEAN]

\* A queued payload: the identity of the request and the header fields read.
Payload(id, req) ==
  [id |-> id, batch_size |-> req.batch_size,
   correlation_id |-> req.correlation_id,
   seq_start |-> req.seq_start, seq_end |-> req.seq_end]

(* ---- std::map operations ---- *)
MapHas(m, k) == k \in DOMAIN m
MapErase(m, k) == [x \in (DOMAIN m) \ {k} |-> m[x]]
MapPut(m, k, v) == [x \in (DOMAIN m) \cup {k} |-> IF x = k THEN v ELSE m[x]]
MapRange(m) == {m[k] : k \in DOMAIN m}

(* ---- CreateControlTensors: the three override sets ---- *)
\* Each set maps the START tensor and the READY tensor to true/false.
start_input_overrides_ == [START |-> TRUE, READY |-> TRUE]
continue_input_overrides_ == [START |-> FALSE, READY |-> TRUE]
notready_input_overrides_ == [START |-> FALSE, READY |-> FALSE]

(* ---- the start of Enqueue: validation ---- *)
\* (variant: the correlation ID is not checked)
InvalidRequestBatchOnly(req) == req.batch_size # 1

\* Enqueue, the two checks made before mu_ is taken.
InvalidRequest(req) ==
  \/ req.batch_size # 1
  \/ req.correlation_id = 0

\* Enqueue, the check made under mu_: no START and the ID is in neither map.
MissingStart(req) ==
  /\ ~req.seq_start
  /\ ~MapHas(sequence_to_batchslot_map_, req.correlation_id)
  /\ ~MapHas(sequence_to_backlog_map_, req.correlation_id)

\* (variant: the payload is put at the front of the queue)
EmplaceFront(q, p) == <<p>> \o q

\* deque::emplace_back
EmplaceBack(q, p) == Append(q, p)

\* ready_batch_slots_.top(): the container is declared in the header, which
\* is not part of the sources; the pool is unordered, any free slot may be
\* the one returned.
ReadyTop == ready_batch_slots_

\* (variant: the target is some slot other than the bound one, if there is one)
AssignedOtherSlot(cid) ==
  IF AllBatchSlots \ {sequence_to_batchslot_map_[cid]} = {}
  THEN sequence_to_batchslot_map_[cid]
  ELSE CHOOSE t \in AllBatchSlots : t # sequence_to_batchslot_map_[cid]

\* target = &sb_itr->second: the slot the correlation ID is bound to.
AssignedSlot(cid) == sequence_to_batchslot_map_[cid]

\* (variant: the slot is not removed from the pool)
PoolNoPop(t) == ready_batch_slots_

\* ready_batch_slots_.pop() after top() returned t.
PoolPop(t) == ready_batch_slots_ \ {t}

\* (variant: the released slot is not put back)
PoolNoPush(batch_slot) == ready_batch_slots_

\* ready_batch_slots_.push(batch_slot)
PoolPush(batch_slot) == ready_batch_slots_ \cup {batch_slot}

\* ReleaseBatchSlot, promotion of a backlog queue whose last payload is not
\* an END: the two map updates (erase from the backlog map, bind the slot).
\* (variant: the correlation ID stays in the backlog map)
PromoteBacklogMapKeep(cid) == sequence_to_backlog_map_

PromoteBacklogMap(cid) == MapErase(sequence_to_backlog_map_, cid)
\* (variant: the released slot is not bound to the promoted correlation ID)
PromoteSlotMapNone(cid, batch_slot) == sequence_to_batchslot_map_

\* sequence_to_batchslot_map_[correlation_id] = batch_slot
PromoteSlotMap(cid, batch_slot) ==
  MapPut(sequence_to_batchslot_map_, cid, batch_slot)

\* The deques still referenced by a shared_ptr (the list or the map).
LiveDeques(list, map) == {list[i] : i \in 1 .. Len(list)} \cup MapRange(map)
Restrict(f, S) == [x \in (DOMAIN f) \cap S |-> f[x]]

(* ---- Create ---- *)
InitScheduler ==
  /\ runner_cnt \in 1 .. MaxRunnerCnt
  /\ batch_size \in 1 .. MaxBatchSize
  /\ runner_cnt * batch_size <= MaxSlotCnt
  /\ ready_batch_slots_ = AllBatchSlots
  /\ sequence_to_batchslot_map_ = <<>>
  /\ sequence_to_backlog_map_ = <<>>
  /\ backlog_queues_ = <<>>
  /\ deques = <<>>
  /\ queues_ = [b \in Batchers |-> [s \in Slots |-> <<>>]]
  /\ active_slots_ = [b \in Batchers |-> [s \in Slots |-> FALSE]]
  /\ max_active_slot_ = [b \in Batchers |-> -1]
  /\ null_request_header_ = [b \in Batchers |-> 0]
  /\ scheduler_idle_ = [b \in Batchers |-> FALSE]
  /\ scheduler_thread_exit_ = [b \in Batchers |-> FALSE]
  /\ exit_sync = [b \in Batchers |-> FALSE]
  /\ pc = [b \in Batchers |-> "loop"]
  /\ slot = [b \in Batchers |-> 0]
  /\ max_slot = [b \in Batchers |-> -1]
  /\ payloads = [b \in Batchers |-> <<>>]
  /\ adjust_max_active_slot = [b \in Batchers |-> FALSE]
  /\ inflight = {}
  /\ ncalls = 0
  /\ errors = {}
  /\ accepted = <<>>
  /\ log = <<>>
  /\ backlogged = {}
  /\ lk_mu = 0
  /\ lk_batch_mu = [b \in Batchers |-> 0]
  /\ lk_ppc = [p \in 1 .. MaxProducers |-> "idle"]
  /\ lk_target = [p \in 1 .. MaxProducers |-> 0]
  /\ lk_wpc = [b \in Batchers |-> "top"]

\* No completion is running.
Init ==
  /\ InitScheduler
  /\ cq_pc = "idle"
  /\ cq_payloads = <<>>
  /\ cq_status = 0
  /\ cq_arg = 0
  /\ cq_i = 1
  /\ cq_found_success = FALSE
  /\ cq_exec = <<>>
  /\ cq_calls = <<>>

(* ---- SequenceBatchScheduler::Enqueue, up to lock.unlock() ---- *)
\* (variant: a request that starts a sequence never uses an existing slot)
HasAssignedSlotUnlessStart(req) ==
  MapHas(sequence_to_batchslot_map_, req.correlation_id) /\ ~req.seq_start

\* sb_itr != sequence_to_batchslot_map_.end()
HasAssignedSlot(req) == MapHas(sequence_to_batchslot_map_, req.correlation_id)

\* (variant: the END flag does not end the tracking of the correlation ID)
KeepTracking(m, req) == m

\* if (seq_end) sequence_to_batchslot_map_.erase(correlation_id)
StopTracking(m, req) ==
  IF req.seq_end THEN MapErase(m, req.correlation_id) ELSE m

\* (variant: a new sequence never finds a slot in the pool)
HasReadySlotNever == FALSE

\* !ready_batch_slots_.empty()
HasReadySlot == ready_batch_slots_ # {}

\* serial: calls for one correlation ID do not overlap in time.
Enqueue(req, serial) ==
  /\ ncalls < MaxEnq
  /\ Cardinality(inflight) < MaxProducers
  /\ serial =>
       \A c \in inflight : c.payload.correlation_id # req.correlation_id
  /\ LET id == ncalls + 1
         p == Payload(id, req)
         cid == req.correlation_id
     IN
     /\ ncalls' = id
     /\ UNCHANGED <<cqVars, lockVars, confVars, batchVars, workerVars, log>>
     /\ IF InvalidRequest(req)
        THEN \* OnComplete(InvalidArgument), mu_ not yet taken
             /\ errors' = errors \cup {[id |-> id, locked |-> FALSE]}
             /\ UNCHANGED <<schedVars, inflight, accepted, backlogged>>
        ELSE IF MissingStart(req)
        THEN \* OnComplete(InvalidArgument) while the unique_lock is held
             /\ errors' = errors \cup {[id |-> id, locked |-> TRUE]}
             /\ UNCHANGED <<schedVars, inflight, accepted, backlogged>>
        ELSE
          /\ UNCHANGED errors
          /\ accepted' = Append(accepted, p)
          /\ IF HasAssignedSlot(req)
             THEN \* the request already has an assigned slot
               /\ sequence_to_batchslot_map_' =
                    StopTracking(sequence_to_batchslot_map_, req)
               /\ inflight' = inflight \cup
                    {[payload |-> p, target |-> AssignedSlot(cid)]}
               /\ UNCHANGED <<ready_batch_slots_, sequence_to_backlog_map_,
                              backlog_queues_, deques, backlogged>>
             ELSE IF MapHas(sequence_to_backlog_map_, cid)
             THEN \* the request already has a queue in the backlog
               LET h == sequence_to_backlog_map_[cid]
                   m == IF req.seq_end
                        THEN MapErase(sequence_to_backlog_map_, cid)
                        ELSE sequence_to_backlog_map_
                   d == [deques EXCEPT ![h] = EmplaceBack(@, p)]
               IN
               /\ sequence_to_backlog_map_' = m
               /\ deques' = Restrict(d, LiveDeques(backlog_queues_, m))
               /\ backlogged' = backlogged \cup {id}
               /\ UNCHANGED <<ready_batch_slots_, sequence_to_batchslot_map_,
                              backlog_queues_, inflight>>
             ELSE IF HasReadySlot
             THEN \* a free slot: bind the sequence to it
               \E t \in ReadyTop :
                 LET m1 == MapPut(sequence_to_batchslot_map_, cid, t)
                 IN
                 /\ ready_batch_slots_' = PoolPop(t)
                 /\ sequence_to_batchslot_map_' = StopTracking(m1, req)
                 /\ inflight' = inflight \cup {[payload |-> p, target |-> t]}
                 /\ UNCHANGED <<sequence_to_backlog_map_, backlog_queues_,
                                deques, backlogged>>
             ELSE \* a new backlog queue
               /\ backlog_queues_' = Append(backlog_queues_, id)
               /\ deques' = MapPut(deques, id, EmplaceBack(<<>>, p))
               /\ sequence_to_backlog_map_' =
                    IF ~req.seq_end
                    THEN MapPut(sequence_to_backlog_map_, cid, id)
                    ELSE sequence_to_backlog_map_
               /\ backlogged' = backlogged \cup {id}
               /\ UNCHANGED <<ready_batch_slots_, sequence_to_batchslot_map_,
                              inflight>>

(* ---- SequenceBatch::Enqueue ---- *)
\* (variant: the worker gives the batch mutex up before the sweep)
BatchMutexAlwaysFree(b) == TRUE

\* The batch mutex is held by the worker for the whole of a sweep.
BatchMutexFree(b) == pc[b] # "sweep"

BatchEnqueue(c) ==
  LET b == c.target.batcher_idx_
      s == c.target.slot_
  IN
  /\ c \in inflight
  /\ BatchMutexFree(b)
  /\ inflight' = inflight \ {c}
  /\ null_request_header_' =
       IF max_active_slot_[b] = -1
       THEN [null_request_header_ EXCEPT ![b] = c.payload.id]
       ELSE null_request_header_
  /\ queues_' = [queues_ EXCEPT ![b][s] = EmplaceBack(@, c.payload)]
  /\ active_slots_' = [active_slots_ EXCEPT ![b][s] = TRUE]
  /\ max_active_slot_' =
       [max_active_slot_ EXCEPT ![b] = IF @ > s THEN @ ELSE s]
  /\ UNCHANGED <<cqVars, lockVars, confVars, schedVars, scheduler_idle_, scheduler_thread_exit_, exit_sync,
                 workerVars, histVars>>

(* ---- SequenceBatchScheduler::ReleaseBatchSlot ---- *)
\* (variant: the backlog is not looked at)
HasBacklogNever == FALSE

\* !backlog_queues_.empty()
HasBacklog == backlog_queues_ # <<>>

\* (variant: the newest backlog queue is taken)
BacklogBack(list) == list[Len(list)]

\* backlog_queues_.front()
BacklogFront(list) == Head(list)

\* The whole critical section, as the new values of what it writes:
\* 'payloads' is the caller's queue after the call, 'released' the result.
ReleaseBatchSlot(batch_slot, queue) ==
  LET moved == deques[BacklogFront(backlog_queues_)]
      back == moved[Len(moved)]
      list == Tail(backlog_queues_)
      toPool == [released |-> TRUE,
                 ready |-> PoolPush(batch_slot),
                 slotmap |-> sequence_to_batchslot_map_,
                 backlogmap |-> sequence_to_backlog_map_]
  IN
  IF HasBacklog
  THEN IF moved # <<>>
       THEN IF ~back.seq_end
            THEN [released |-> FALSE, payloads |-> moved, list |-> list,
                  ready |-> ready_batch_slots_,
                  slotmap |-> PromoteSlotMap(back.correlation_id, batch_slot),
                  backlogmap |-> PromoteBacklogMap(back.correlation_id)]
            ELSE [released |-> FALSE, payloads |-> moved, list |-> list,
                  ready |-> ready_batch_slots_,
                  slotmap |-> sequence_to_batchslot_map_,
                  backlogmap |-> sequence_to_backlog_map_]
       ELSE \* "should never be empty": the queue was moved in and the list popped
            toPool @@ [payloads |-> moved, list |-> list]
  ELSE toPool @@ [payloads |-> queue, list |-> backlog_queues_]

(* ---- SequenceBatch::SchedulerThread ---- *)
\* (variant: max_slot is max_active_slot_, no scan for a waiting payload)
NoFindMaxSlot(qs, m) == m

\* while ((max_slot >= 0) && queues_[max_slot].empty()) max_slot--;
RECURSIVE FindMaxSlot(_, _)
FindMaxSlot(qs, m) ==
  IF (m >= 0) /\ (qs[m] = <<>>) THEN FindMaxSlot(qs, m - 1) ELSE m

\* (variant: max_active_slot_ is decremented at most once)
AdjustMaxActiveSlotOnce(act, m) ==
  IF (m >= 0) /\ ~act[m] THEN m - 1 ELSE m

\* while ((max_active_slot_ >= 0) && !active_slots_[max_active_slot_]) ...--;
RECURSIVE AdjustMaxActiveSlot(_, _)
AdjustMaxActiveSlot(act, m) ==
  IF (m >= 0) /\ ~act[m] THEN AdjustMaxActiveSlot(act, m - 1) ELSE m

\* The entry of the batch for an empty slot: a NULL request provider built
\* from null_request_header_, no stats, no completion function.
NullPayload(header) ==
  [id |-> 0, batch_size |-> 1, correlation_id |-> 0, seq_start |-> FALSE, seq_end |-> FALSE,
   header |-> header, input_override |-> notready_input_overrides_,
   complete_function_ |-> FALSE]

\* (variant: the START flag is not looked at)
InputOverrideContinue(p) == continue_input_overrides_

\* The override the worker sets on the request of a queued payload.
InputOverride(p) ==
  IF p.seq_start THEN start_input_overrides_ ELSE continue_input_overrides_

\* The entry of the batch for the head of a slot's queue.
SlotPayload(p) ==
  [id |-> p.id, batch_size |-> p.batch_size,
   correlation_id |-> p.correlation_id,
   seq_start |-> p.seq_start, seq_end |-> p.seq_end,
   header |-> p.id, input_override |-> InputOverride(p),
   complete_function_ |-> TRUE]

\* (variant: the loop has no exit condition)
ExitRequestedNever(b) == FALSE

\* scheduler_thread_exit_, as set by the destructor
ExitRequested(b) == scheduler_thread_exit_[b]

\* "while (!scheduler_thread_exit_)": the flag is read without the batch
\* mutex; the read is sure to give true only when the worker has locked the
\* mutex since the destructor set the flag under it.
ExitRead(b) == ExitRequested(b) /\ exit_sync[b]

\* Top of the loop: take the batch mutex, look for work; wait if none.
WorkerBegin(b) ==
  /\ pc[b] = "loop"
  /\ ~ExitRead(b)
  /\ exit_sync' = [exit_sync EXCEPT ![b] = ExitRequested(b)]
  /\ LET m == FindMaxSlot(queues_[b], max_active_slot_[b]) IN
     /\ max_slot' = [max_slot EXCEPT ![b] = m]
     /\ payloads' = [payloads EXCEPT ![b] = <<>>]
     /\ adjust_max_active_slot' = [adjust_max_active_slot EXCEPT ![b] = FALSE]
     /\ slot' = [slot EXCEPT ![b] = 0]
     /\ IF m < 0
        THEN /\ scheduler_idle_' = [scheduler_idle_ EXCEPT ![b] = TRUE]
             /\ pc' = [pc EXCEPT ![b] = "wait"]
        ELSE /\ pc' = [pc EXCEPT ![b] = "sweep"]
             /\ UNCHANGED scheduler_idle_
  /\ UNCHANGED <<cqVars, lockVars, confVars, schedVars, queues_, active_slots_, max_active_slot_,
                 null_request_header_, scheduler_thread_exit_, inflight,
                 histVars>>

\* cv_.wait_for returns (notification or timeout); scheduler_idle_ = false.
WorkerWake(b) ==
  /\ pc[b] = "wait"
  /\ exit_sync' = [exit_sync EXCEPT ![b] = ExitRequested(b)]
  /\ scheduler_idle_' = [scheduler_idle_ EXCEPT ![b] = FALSE]
  /\ pc' = [pc EXCEPT ![b] = "loop"]
  /\ UNCHANGED <<cqVars, lockVars, confVars, schedVars, queues_, active_slots_, max_active_slot_,
                 null_request_header_, scheduler_thread_exit_, slot, max_slot,
                 payloads, adjust_max_active_slot, inflight, histVars>>

\* (variant: the head of the queue is not removed)
NoPopFront(queue) == queue

\* queue.pop_front()
PopFront(queue) == Tail(queue)

\* One iteration of "for (slot = 0; slot <= max_slot; ++slot)".
WorkerSlot(b) ==
  /\ pc[b] = "sweep"
  /\ slot[b] <= max_slot[b]
  /\ LET s == slot[b]
         queue == queues_[b][s]
         popped == PopFront(queue)
         r == ReleaseBatchSlot(BatchSlot(b, s), popped)
     IN
     /\ slot' = [slot EXCEPT ![b] = s + 1]
     /\ IF queue = <<>>
        THEN /\ payloads' = [payloads EXCEPT
                  ![b] = Append(@, NullPayload(null_request_header_[b]))]
             /\ UNCHANGED <<schedVars, queues_, active_slots_,
                            adjust_max_active_slot>>
        ELSE /\ payloads' = [payloads EXCEPT
                  ![b] = Append(@, SlotPayload(Head(queue)))]
             /\ IF Head(queue).seq_end
                THEN /\ queues_' = [queues_ EXCEPT ![b][s] = r.payloads]
                     /\ ready_batch_slots_' = r.ready
                     /\ sequence_to_batchslot_map_' = r.slotmap
                     /\ sequence_to_backlog_map_' = r.backlogmap
                     /\ backlog_queues_' = r.list
                     /\ deques' = Restrict(deques,
                                           LiveDeques(r.list, r.backlogmap))
                     /\ active_slots_' =
                          IF r.released
                          THEN [active_slots_ EXCEPT ![b][s] = FALSE]
                          ELSE active_slots_
                     /\ adjust_max_active_slot' =
                          IF r.released /\ (s = max_active_slot_[b])
                          THEN [adjust_max_active_slot EXCEPT ![b] = TRUE]
                          ELSE adjust_max_active_slot
                ELSE /\ queues_' = [queues_ EXCEPT ![b][s] = popped]
                     /\ UNCHANGED <<schedVars, active_slots_,
                                    adjust_max_active_slot>>
  /\ UNCHANGED <<cqVars, lockVars, confVars, max_active_slot_, null_request_header_,
                 scheduler_idle_, scheduler_thread_exit_, exit_sync, pc, max_slot,
                 inflight, histVars>>

\* After the sweep: adjust max_active_slot_ and release the batch mutex.
WorkerSweepEnd(b) ==
  /\ pc[b] = "sweep"
  /\ slot[b] > max_slot[b]
  /\ max_active_slot_' =
       IF adjust_max_active_slot[b]
       THEN [max_active_slot_ EXCEPT
               ![b] = AdjustMaxActiveSlot(active_slots_[b], @)]
       ELSE max_active_slot_
  /\ pc' = [pc EXCEPT ![b] = "run"]
  /\ UNCHANGED <<cqVars, lockVars, confVars, schedVars, queues_, active_slots_,
                 null_request_header_, scheduler_idle_, scheduler_thread_exit_, exit_sync,
                 slot, max_slot, payloads, adjust_max_active_slot, inflight,
                 histVars>>

\* OnSchedule_(batcher_idx_, payloads.get(), OnCompleteQueuedPayloads)
WorkerRun(b) ==
  /\ pc[b] = "run"
  /\ log' = Append(log, [batcher_idx |-> b, payloads |-> payloads[b]])
  /\ pc' = [pc EXCEPT ![b] = "loop"]
  /\ UNCHANGED <<cqVars, lockVars, confVars, schedVars, batchVars, slot, max_slot, payloads,
                 adjust_max_active_slot, inflight, ncalls, errors, accepted,
                 backlogged>>

Next ==
  \/ \E req \in Requests : Enqueue(req, FALSE)
  \/ \E c \in inflight : BatchEnqueue(c)
  \/ \E b \in Batchers : WorkerBegin(b)
  \/ \E b \in Batchers : WorkerWake(b)
  \/ \E b \in Batchers : WorkerSlot(b)
  \/ \E b \in Batchers : WorkerSweepEnd(b)
  \/ \E b \in Batchers : WorkerRun(b)

Spec == Init /\ [][Next]_vars

\* Producers that never overlap two Enqueue calls for one correlation ID.
NextSerial ==
  \/ \E req \in Requests : Enqueue(req, TRUE)
  \/ \E c \in inflight : BatchEnqueue(c)
  \/ \E b \in Batchers : WorkerBegin(b)
  \/ \E b \in Batchers : WorkerWake(b)
  \/ \E b \in Batchers : WorkerSlot(b)
  \/ \E b \in Batchers : WorkerSweepEnd(b)
  \/ \E b \in Batchers : WorkerRun(b)

SpecSerial == Init /\ [][NextSerial]_vars

\* The scheduler with threads that keep running: every worker thread takes
\* its next step, and every Enqueue call that has released mu_ gets the
\* batch mutex and returns.
WorkerStep(b) ==
  \/ WorkerBegin(b)
  \/ WorkerWake(b)
  \/ WorkerSlot(b)
  \/ WorkerSweepEnd(b)
  \/ WorkerRun(b)

Fairness ==
  /\ \A b \in 0 .. (MaxRunnerCnt - 1) :
       WF_vars(b \in Batchers /\ WorkerStep(b))
  /\ WF_vars(\E c \in inflight : BatchEnqueue(c))

SpecLive == Init /\ [][Next]_vars /\ Fairness

(* ---- SequenceBatch::~SequenceBatch ---- *)
\* The destructor sets the flag under the batch mutex; then it notifies
\* and joins the worker thread.  The scheduler is destroyed when no Enqueue
\* call is running, and none is made afterwards; MaxExitEnq calls are made
\* before.
Destroy(b) ==
  /\ ~scheduler_thread_exit_[b]
  /\ BatchMutexFree(b)
  /\ inflight = {}
  /\ scheduler_thread_exit_' = [scheduler_thread_exit_ EXCEPT ![b] = TRUE]
  /\ UNCHANGED <<cqVars, lockVars, confVars, schedVars, queues_,
                 active_slots_, max_active_slot_, null_request_header_,
                 scheduler_idle_, exit_sync, workerVars, inflight, histVars>>

\* The loop condition is false: SchedulerThread returns.
WorkerExit(b) ==
  /\ pc[b] = "loop"
  /\ ExitRequested(b)
  /\ pc' = [pc EXCEPT ![b] = "exit"]
  /\ UNCHANGED <<cqVars, lockVars, confVars, schedVars, batchVars, slot,
                 max_slot, payloads, adjust_max_active_slot, inflight,
                 histVars>>

\* scheduler_thread_->join() has returned.
Joined(b) == scheduler_thread_exit_[b] /\ pc[b] = "exit"

NoExitRequested == \A b \in Batchers : ~scheduler_thread_exit_[b]

NextExit ==
  \/ /\ NoExitRequested
     /\ ncalls < MaxExitEnq
     /\ \E req \in Requests : Enqueue(req, FALSE)
  \/ \E c \in inflight : BatchEnqueue(c)
  \/ \E b \in Batchers : WorkerBegin(b)
  \/ \E b \in Batchers : WorkerWake(b)
  \/ \E b \in Batchers : WorkerSlot(b)
  \/ \E b \in Batchers : WorkerSweepEnd(b)
  \/ \E b \in Batchers : WorkerRun(b)
  \/ \E b \in Batchers : Destroy(b)
  \/ \E b \in Batchers : WorkerExit(b)

FairnessExit ==
  \A b \in 0 .. (MaxRunnerCnt - 1) :
    WF_vars(b \in Batchers /\ (WorkerStep(b) \/ WorkerExit(b)))

SpecExit == Init /\ [][NextExit]_vars /\ FairnessExit

(* ---- the locking of Enqueue and SchedulerThread ---- *)
\* The threads and what each holds and waits for; the data the mutexes
\* protect is left out.  Producer threads are 1 .. MaxProducers, the worker
\* thread of batcher b is WorkerThread(b); 0 is "no owner".
Producers == 1 .. MaxProducers
WorkerThread(b) == MaxProducers + 1 + b
mainVars == <<confVars, schedVars, batchVars, workerVars, inflight, histVars,
              cqVars>>

\* (variant: Enqueue keeps mu_ while it calls the batcher)
AfterNoUnlock(p) == p

\* lock.unlock(): the owner of mu_ after it
AfterUnlock(p) == 0

\* std::unique_lock<std::mutex> lock(mu_) in Enqueue
ProducerLock(p) ==
  /\ lk_ppc[p] = "idle"
  /\ lk_mu = 0
  /\ lk_mu' = p
  /\ lk_ppc' = [lk_ppc EXCEPT ![p] = "routing"]
  /\ UNCHANGED <<lk_batch_mu, lk_target, lk_wpc, mainVars>>

\* The returns of Enqueue inside the critical section: the rejection of a
\* request without START and the two backlog branches.
ProducerReturn(p) ==
  /\ lk_ppc[p] = "routing"
  /\ lk_mu' = 0
  /\ lk_ppc' = [lk_ppc EXCEPT ![p] = "idle"]
  /\ UNCHANGED <<lk_batch_mu, lk_target, lk_wpc, mainVars>>

\* lock.unlock() with a target slot in batcher b
ProducerUnlock(p, b) ==
  /\ lk_ppc[p] = "routing"
  /\ lk_mu' = AfterUnlock(p)
  /\ lk_target' = [lk_target EXCEPT ![p] = b]
  /\ lk_ppc' = [lk_ppc EXCEPT ![p] = "routed"]
  /\ UNCHANGED <<lk_batch_mu, lk_wpc, mainVars>>

\* std::lock_guard<std::mutex> lock(mu_) in SequenceBatch::Enqueue
ProducerBatchLock(p) ==
  /\ lk_ppc[p] = "routed"
  /\ lk_batch_mu[lk_target[p]] = 0
  /\ lk_batch_mu' = [lk_batch_mu EXCEPT ![lk_target[p]] = p]
  /\ lk_ppc' = [lk_ppc EXCEPT ![p] = "queueing"]
  /\ UNCHANGED <<lk_mu, lk_target, lk_wpc, mainVars>>

\* The end of the lock_guard's scope; Enqueue returns, and the destructor of
\* its unique_lock releases mu_ if the lock still owns it.
ProducerBatchUnlock(p) ==
  /\ lk_ppc[p] = "queueing"
  /\ lk_batch_mu' = [lk_batch_mu EXCEPT ![lk_target[p]] = 0]
  /\ lk_mu' = IF lk_mu = p THEN 0 ELSE lk_mu
  /\ lk_ppc' = [lk_ppc EXCEPT ![p] = "idle"]
  /\ UNCHANGED <<lk_target, lk_wpc, mainVars>>

\* std::unique_lock<std::mutex> lock(mu_) at the top of the worker's loop
WorkerLock(b) ==
  /\ lk_wpc[b] = "top"
  /\ lk_batch_mu[b] = 0
  /\ lk_batch_mu' = [lk_batch_mu EXCEPT ![b] = WorkerThread(b)]
  /\ lk_wpc' = [lk_wpc EXCEPT ![b] = "sweep"]
  /\ UNCHANGED <<lk_mu, lk_ppc, lk_target, mainVars>>

\* base_->ReleaseBatchSlot: std::unique_lock<std::mutex> lock(mu_)
WorkerReleaseLock(b) ==
  /\ lk_wpc[b] = "sweep"
  /\ lk_mu = 0
  /\ lk_mu' = WorkerThread(b)
  /\ lk_wpc' = [lk_wpc EXCEPT ![b] = "release"]
  /\ UNCHANGED <<lk_batch_mu, lk_ppc, lk_target, mainVars>>

\* ReleaseBatchSlot returns.
WorkerReleaseUnlock(b) ==
  /\ lk_wpc[b] = "release"
  /\ lk_mu' = 0
  /\ lk_wpc' = [lk_wpc EXCEPT ![b] = "sweep"]
  /\ UNCHANGED <<lk_batch_mu, lk_ppc, lk_target, mainVars>>

\* cv_.wait_for gives the batch mutex up while it waits ...
WorkerWait(b) ==
  /\ lk_wpc[b] = "sweep"
  /\ lk_batch_mu' = [lk_batch_mu EXCEPT ![b] = 0]
  /\ lk_wpc' = [lk_wpc EXCEPT ![b] = "wait"]
  /\ UNCHANGED <<lk_mu, lk_ppc, lk_target, mainVars>>

\* ... and takes it again before it returns.
WorkerWaitReturn(b) ==
  /\ lk_wpc[b] = "wait"
  /\ lk_batch_mu[b] = 0
  /\ lk_batch_mu' = [lk_batch_mu EXCEPT ![b] = WorkerThread(b)]
  /\ lk_wpc' = [lk_wpc EXCEPT ![b] = "sweep"]
  /\ UNCHANGED <<lk_mu, lk_ppc, lk_target, mainVars>>

\* The end of the scope of the worker's lock.
WorkerUnlock(b) ==
  /\ lk_wpc[b] = "sweep"
  /\ lk_batch_mu' = [lk_batch_mu EXCEPT ![b] = 0]
  /\ lk_wpc' = [lk_wpc EXCEPT ![b] = "run"]
  /\ UNCHANGED <<lk_mu, lk_ppc, lk_target, mainVars>>

\* OnSchedule_ is called and returns.
WorkerOnSchedule(b) ==
  /\ lk_wpc[b] = "run"
  /\ lk_wpc' = [lk_wpc EXCEPT ![b] = "top"]
  /\ UNCHANGED <<lk_mu, lk_batch_mu, lk_ppc, lk_target, mainVars>>

NextLocks ==
  \/ \E p \in Producers : ProducerLock(p)
  \/ \E p \in Producers : ProducerReturn(p)
  \/ \E p \in Producers : \E b \in Batchers : ProducerUnlock(p, b)
  \/ \E p \in Producers : ProducerBatchLock(p)
  \/ \E p \in Producers : ProducerBatchUnlock(p)
  \/ \E b \in Batchers : WorkerLock(b)
  \/ \E b \in Batchers : WorkerReleaseLock(b)
  \/ \E b \in Batchers : WorkerReleaseUnlock(b)
  \/ \E b \in Batchers : WorkerWait(b)
  \/ \E b \in Batchers : WorkerWaitReturn(b)
  \/ \E b \in Batchers : WorkerUnlock(b)
  \/ \E b \in Batchers : WorkerOnSchedule(b)

SpecLocks == Init /\ [][NextLocks]_vars

(* ---- OnCompleteQueuedPayloads, the completion function of a batch ---- *)
\* A tensorflow::Status by its code: 0 is OK.
StatusOK == 0
Statuses == 0 .. MaxErr
Ok(st) == st = StatusOK

\* A payload of a batch as the completion function reads it.  The worker
\* builds placeholders with no stats and no completion function, and real
\* payloads with both.
CompletedPayloads ==
  {e \in [complete_function_ : BOOLEAN, stats_ : BOOLEAN,
          status_ : Statuses, compute_status_ : Statuses] :
     e.stats_ = e.complete_function_}

\* The batches the worker can hand over: one entry per slot up to max_slot,
\* the last one a real payload.
CompletedBatches ==
  UNION {{q \in [1 .. n -> CompletedPayloads] : q[n].complete_function_} :
           n \in 1 .. batch_size}

\* payload.status_.ok() ? payload.compute_status_ : payload.status_
PayloadStatus(payload) ==
  IF Ok(payload.status_) THEN payload.compute_status_ ELSE payload.status_

\* (variant: payloads without completion function are not looked at)
NoCompleteStatusIgnored(batch, i, status) == status

\* The first loop: a failed payload without completion function fails all.
RECURSIVE NoCompleteStatus(_, _, _)
NoCompleteStatus(batch, i, status) ==
  IF i > Len(batch) THEN status
  ELSE IF ~batch[i].complete_function_ /\ ~Ok(PayloadStatus(batch[i]))
       THEN PayloadStatus(batch[i])
       ELSE NoCompleteStatus(batch, i + 1, status)

\* final_status of the second loop
FinalStatus(status, payload) ==
  IF Ok(status) THEN PayloadStatus(payload) ELSE status

\* (variant: every successful payload is counted)
CountsExecutionEach(found_success, final_status, payload) ==
  Ok(final_status) /\ payload.stats_

\* if (!found_success && final_status.ok() && (payload.stats_ != nullptr))
CountsExecution(found_success, final_status, payload) ==
  ~found_success /\ Ok(final_status) /\ payload.stats_

\* The runner calls the completion function with the status of the batch.
InitComplete ==
  /\ InitScheduler
  /\ cq_pc = "called"
  /\ cq_payloads \in CompletedBatches
  /\ cq_status \in Statuses
  /\ cq_arg = cq_status
  /\ cq_i = 1
  /\ cq_found_success = FALSE
  /\ cq_exec = [i \in 1 .. Len(cq_payloads) |-> 0]
  /\ cq_calls = <<>>

\* if (status.ok()) { for (auto& payload : *payloads) ... }
CompleteElevate ==
  /\ cq_pc = "called"
  /\ cq_status' =
       IF Ok(cq_status) THEN NoCompleteStatus(cq_payloads, 1, cq_status)
       ELSE cq_status
  /\ cq_pc' = "complete"
  /\ UNCHANGED <<cq_payloads, cq_arg, cq_i, cq_found_success, cq_exec,
                 cq_calls>>
  /\ UNCHANGED <<confVars, schedVars, batchVars, workerVars, inflight,
                 histVars, lockVars>>

\* One iteration of the loop that completes each payload.
CompletePayload ==
  /\ cq_pc = "complete"
  /\ cq_i <= Len(cq_payloads)
  /\ LET payload == cq_payloads[cq_i]
         final_status == FinalStatus(cq_status, payload)
         counts == CountsExecution(cq_found_success, final_status, payload)
     IN
     /\ cq_exec' = IF counts THEN [cq_exec EXCEPT ![cq_i] = 1] ELSE cq_exec
     /\ cq_found_success' = (cq_found_success \/ counts)
     /\ cq_calls' =
          IF payload.complete_function_
          THEN Append(cq_calls, [index |-> cq_i, status |-> final_status])
          ELSE cq_calls
     /\ cq_i' = cq_i + 1
     /\ cq_pc' = IF cq_i = Len(cq_payloads) THEN "done" ELSE "complete"
  /\ UNCHANGED <<cq_payloads, cq_status, cq_arg>>
  /\ UNCHANGED <<confVars, schedVars, batchVars, workerVars, inflight,
                 histVars, lockVars>>

NextComplete ==
  \/ CompleteElevate
  \/ CompletePayload

SpecComplete == InitComplete /\ [][NextComplete]_vars

(***************************************************************************)
(* Histories read by the properties                                        *)
(***************************************************************************)
AcceptedSet == {accepted[i] : i \in 1 .. Len(accepted)}

\* A delivery <<i, j>>: entry j of the batch of the i-th OnSchedule call.
Entry(d) == log[d[1]].payloads[d[2]]
RealDeliveries ==
  {d \in (1 .. Len(log)) \X (1 .. batch_size) :
     /\ d[2] <= Len(log[d[1]].payloads)
     /\ Entry(d).complete_function_}

\* p and q belong to one sequence: same correlation ID, p not after q, and
\* no END request of that ID was accepted from p up to just before q.
SameSequence(p, q) ==
  /\ p.correlation_id = q.correlation_id
  /\ p.id <= q.id
  /\ ~ \E r \in AcceptedSet :
         /\ r.correlation_id = p.correlation_id
         /\ r.seq_end
         /\ p.id <= r.id
         /\ r.id < q.id

\* All payloads waiting in slot (b, s) or on their way to it.
InflightTo(b, s) ==
  {c.payload : c \in {x \in inflight : x.target = BatchSlot(b, s)}}
QueueSet(q) == {q[i] : i \in 1 .. Len(q)}

(***************************************************************************)
(* C1. Per-sequence FIFO, as amended: when Enqueue calls for one           *)
(* correlation ID do not overlap, the payloads of one sequence (from its   *)
(* first request through its END) are handed to OnSchedule in the order of *)
(* their Enqueue calls, each in a later batch than its predecessors.       *)
(***************************************************************************)
PerSequenceFIFO ==
  \A d2 \in RealDeliveries : \A p \in AcceptedSet :
    (p.id < Entry(d2).id /\ SameSequence(p, Entry(d2)))
      => \E d1 \in RealDeliveries : Entry(d1).id = p.id /\ d1[1] < d2[1]

\* C1 witness: two payloads of one sequence have been delivered.
PerSequenceFIFOWitness ==
  \E d1, d2 \in RealDeliveries :
    /\ Entry(d1).id < Entry(d2).id
    /\ SameSequence(Entry(d1), Entry(d2))
    /\ Entry(d2).seq_end

\* C1 as stated: for one correlation ID, whatever the sequence, an earlier
\* accepted payload is handed to OnSchedule no later than a later one.
PerCorrelationIdFIFO ==
  \A d2 \in RealDeliveries : \A p \in AcceptedSet :
    (p.id < Entry(d2).id /\ p.correlation_id = Entry(d2).correlation_id)
      => \E d1 \in RealDeliveries : Entry(d1).id = p.id /\ d1[1] <= d2[1]

(***************************************************************************)
(* C2. Per-sequence affinity: all delivered payloads of one sequence       *)
(* arrive with the same batcher_idx and at the same index of the batch.    *)
(***************************************************************************)
PerSequenceAffinity ==
  \A d1, d2 \in RealDeliveries :
    SameSequence(Entry(d1), Entry(d2))
      => /\ log[d1[1]].batcher_idx = log[d2[1]].batcher_idx
         /\ d1[2] = d2[2]

\* C2 witness: two payloads of one sequence delivered, away from slot (0, 0).
PerSequenceAffinityWitness ==
  \E d1, d2 \in RealDeliveries :
    /\ Entry(d1).id < Entry(d2).id
    /\ SameSequence(Entry(d1), Entry(d2))
    /\ (d1[2] = 2 \/ log[d1[1]].batcher_idx = 1)

(***************************************************************************)
(* C3. Slot exclusivity as stated: a slot that holds (or is about to       *)
(* receive) an END payload is neither in the pool nor a value of the slot  *)
(* map, and no slot queue holds payloads of two correlation IDs.           *)
(***************************************************************************)
SlotExclusivity ==
  \A b \in Batchers : \A s \in Slots :
    /\ (\E p \in QueueSet(queues_[b][s]) \cup InflightTo(b, s) : p.seq_end)
         => /\ BatchSlot(b, s) \notin ready_batch_slots_
            /\ BatchSlot(b, s) \notin MapRange(sequence_to_batchslot_map_)
    /\ \A p, q \in QueueSet(queues_[b][s]) :
         p.correlation_id = q.correlation_id

(***************************************************************************)
(* C4. Map disjointness: no correlation ID is a key of both maps.          *)
(***************************************************************************)
MapDisjointness ==
  (DOMAIN sequence_to_batchslot_map_) \cap (DOMAIN sequence_to_backlog_map_)
    = {}

\* C4 witness: both maps hold an ID after the worker has released a slot
\* (an END payload was delivered), with the pool empty and the maps in use.
MapDisjointnessWitness ==
  /\ DOMAIN sequence_to_backlog_map_ # {}
  /\ DOMAIN sequence_to_batchslot_map_ # {}
  /\ \E d \in RealDeliveries : Entry(d).seq_end

(***************************************************************************)
(* C5. Pool disjointness: no pooled slot is a value of the slot map, and   *)
(* no two correlation IDs are bound to the same slot.                      *)
(***************************************************************************)
PoolDisjointness ==
  /\ ready_batch_slots_ \cap MapRange(sequence_to_batchslot_map_) = {}
  /\ \A c1, c2 \in DOMAIN sequence_to_batchslot_map_ :
       sequence_to_batchslot_map_[c1] = sequence_to_batchslot_map_[c2]
         => c1 = c2

\* C5 witness: two IDs are bound (to two slots) and a batch has been run.
PoolDisjointnessWitness ==
  /\ Cardinality(DOMAIN sequence_to_batchslot_map_) = 2
  /\ log # <<>>

(***************************************************************************)
(* C6. Pool coverage, as amended: the pool and the values of the slot map  *)
(* are sets of slots of the scheduler, and a slot that is in neither is a  *)
(* slot to which an END payload has been routed and whose release (by the  *)
(* worker that pops that END) has not happened yet.                        *)
(***************************************************************************)
PoolCoverageUpToEnd ==
  /\ ready_batch_slots_ \cup MapRange(sequence_to_batchslot_map_)
       \subseteq AllBatchSlots
  /\ \A b \in Batchers : \A s \in Slots :
       \/ BatchSlot(b, s) \in ready_batch_slots_
       \/ BatchSlot(b, s) \in MapRange(sequence_to_batchslot_map_)
       \/ \E p \in QueueSet(queues_[b][s]) \cup InflightTo(b, s) : p.seq_end

\* C6 witness: a slot released by the worker is back in the pool while
\* another slot waits for its END to be processed.
PoolCoverageWitness ==
  /\ ready_batch_slots_ # {}
  /\ log # <<>>
  /\ \E b \in Batchers : \E s \in Slots :
       /\ BatchSlot(b, s) \notin ready_batch_slots_
       /\ BatchSlot(b, s) \notin MapRange(sequence_to_batchslot_map_)

\* C6 as stated: every slot is in the pool or bound in the slot map.
PoolCoverage ==
  ready_batch_slots_ \cup MapRange(sequence_to_batchslot_map_) = AllBatchSlots

(***************************************************************************)
(* C7. Batch shape, as amended: the batch has length max_slot + 1, where   *)
(* max_slot is the largest slot index, not above max_active_slot_, whose   *)
(* queue held a payload when the assembly began; it has one entry for each *)
(* slot index 0 .. max_slot, the head of the queue where the queue was not *)
(* empty and a NOT-READY placeholder where it was; so its last entry is a  *)
(* real payload and its length is at most max_active_slot_ + 1.            *)
(***************************************************************************)
BatchShapeState ==
  \A b \in Batchers :
    /\ (pc[b] = "sweep" /\ slot[b] = 0) =>
         /\ max_slot[b] >= 0
         /\ max_slot[b] <= max_active_slot_[b]
         /\ queues_[b][max_slot[b]] # <<>>
         /\ \A i \in (max_slot[b] + 1) .. max_active_slot_[b] :
              queues_[b][i] = <<>>
    /\ pc[b] = "sweep" =>
         /\ Len(payloads[b]) = slot[b]
         /\ slot[b] <= max_slot[b] + 1
    /\ pc[b] = "run" =>
         /\ Len(payloads[b]) = max_slot[b] + 1
         /\ payloads[b][Len(payloads[b])].complete_function_

BatchShapeStep ==
  \A b \in Batchers :
    (pc[b] = "sweep" /\ slot'[b] = slot[b] + 1) =>
      LET q == queues_[b][slot[b]]
          e == payloads'[b][slot[b] + 1]
      IN /\ payloads'[b] = Append(payloads[b], e)
         /\ (q = <<>>) => (~e.complete_function_ /\ e.id = 0
                            /\ e.input_override = [START |-> FALSE,
                                                   READY |-> FALSE])
         /\ (q # <<>>) => (e.complete_function_ /\ e.id = Head(q).id)

BatchShapeDelivered ==
  \A b \in Batchers :
    (pc[b] = "run" /\ pc'[b] = "loop") =>
      log' = Append(log, [batcher_idx |-> b, payloads |-> payloads[b]])

BatchShape ==
  /\ []BatchShapeState
  /\ [][BatchShapeStep /\ BatchShapeDelivered]_vars

\* C7 witness: a sweep has assembled a batch that stops below
\* max_active_slot_, the higher active slot having nothing queued.
BatchShapeWitness ==
  \E b \in Batchers :
    /\ pc[b] = "sweep"
    /\ slot[b] > max_slot[b]
    /\ max_slot[b] < max_active_slot_[b]
    /\ active_slots_[b][max_active_slot_[b]]

\* C7 as stated: the assembled batch has length max_active_slot_ + 1 (read
\* when the sweep is complete and the batch mutex still held, so
\* max_active_slot_ is what it was when the assembly began).
BatchLengthIsMaxActive ==
  \A b \in Batchers :
    (pc[b] = "sweep" /\ slot[b] > max_slot[b])
      => Len(payloads[b]) = max_active_slot_[b] + 1

(***************************************************************************)
(* C8. Override correctness: in every batch handed to OnSchedule a real    *)
(* payload whose request has the START flag carries START=true,            *)
(* READY=true, any other real payload START=false, READY=true, and a       *)
(* placeholder START=false, READY=false; the first payload of every        *)
(* sequence is START-flagged, so it carries the START set.                 *)
(***************************************************************************)
Request(id) == CHOOSE a \in AcceptedSet : a.id = id

SuccessfulPayloads ==
  {i \in 1 .. Len(cq_payloads) :
     \E k \in 1 .. Len(cq_calls) :
       cq_calls[k].index = i /\ cq_calls[k].status = 0}

ExecutionAccounting ==
  cq_pc = "done" =>
    \A i \in 1 .. Len(cq_payloads) :
      cq_exec[i] =
        IF i \in SuccessfulPayloads /\ \A k \in SuccessfulPayloads : i <= k
        THEN 1 ELSE 0

\* C9 witness: a completed batch with two successful payloads.
ExecutionAccountingWitness ==
  /\ cq_pc = "done"
  /\ Cardinality(SuccessfulPayloads) = 2

\* C9 as stated: after every completion exactly one entry is counted.
ExactlyOneExecution ==
  cq_pc = "done" =>
    Cardinality({i \in 1 .. Len(cq_payloads) : cq_exec[i] = 1}) = 1

(***************************************************************************)
(* C10. Rejected requests change nothing: every Enqueue call either adds   *)
(* one payload to the accepted ones, and then its request had batch size   *)
(* 1, a non-zero correlation ID and either the START flag or an ID known   *)
(* to one of the maps, or makes exactly one OnComplete(InvalidArgument)    *)
(* call and leaves the maps, the backlog, the pool and every batcher       *)
(* unchanged; a rejected payload is in no queue and in no batch.           *)
(***************************************************************************)
RejectedStep ==
  /\ \E e \in errors' : e.id = ncalls' /\ errors' = errors \cup {e}
  /\ \A e \in errors : e.id # ncalls'
  /\ UNCHANGED <<schedVars, batchVars, workerVars, inflight, accepted, log>>

AcceptedStep ==
  /\ errors' = errors
  /\ Len(accepted') = Len(accepted) + 1
  /\ LET p == accepted'[Len(accepted')] IN
     /\ accepted' = Append(accepted, p)
     /\ p.id = ncalls'
     /\ p.batch_size = 1
     /\ p.correlation_id # 0
     /\ \/ p.seq_start
        \/ p.correlation_id \in DOMAIN sequence_to_batchslot_map_
        \/ p.correlation_id \in DOMAIN sequence_to_backlog_map_

RejectedNowhere ==
  \A e \in errors :
    /\ \A p \in AcceptedSet : p.id # e.id
    /\ \A c \in inflight : c.payload.id # e.id
    /\ \A b \in Batchers : \A s \in Slots :
         \A p \in QueueSet(queues_[b][s]) : p.id # e.id
    /\ \A h \in DOMAIN deques : \A p \in QueueSet(deques[h]) : p.id # e.id
    /\ \A d \in RealDeliveries : Entry(d).id # e.id

RejectedChangeNothing ==
  /\ [][(ncalls' # ncalls) => (RejectedStep \/ AcceptedStep)]_vars
  /\ [][(errors' # errors) => (ncalls' = ncalls + 1)]_vars
  /\ []RejectedNowhere

\* C10 witness: one request was rejected before the lock was taken and
\* another under the lock, while a sequence is bound and the pool is in use.
RejectedChangeNothingWitness ==
  /\ \E e1, e2 \in errors : e1.locked /\ ~e2.locked
  /\ DOMAIN sequence_to_batchslot_map_ # {}
  /\ ready_batch_slots_ # {}

(***************************************************************************)
(* C11. START on a correlation ID that is in flight: an Enqueue call with  *)
(* the START flag for an ID that is a key of one of the two maps is        *)
(* accepted without an error callback, takes no slot from the pool and     *)
(* creates no backlog queue; its payload goes to the slot the ID is bound  *)
(* to, where SequenceBatch::Enqueue appends it at the tail of the queue,   *)
(* or to the tail of the ID's backlog queue.  The binding of an ID is      *)
(* dropped only by an accepted END for that ID (and a backlog binding      *)
(* also by its promotion to a slot binding).                               *)
(***************************************************************************)
StartOnInflightStep ==
  LET p == accepted'[Len(accepted')]
      cid == p.correlation_id
      h == sequence_to_backlog_map_[cid]
  IN
  (/\ accepted' # accepted
   /\ p.seq_start
   /\ \/ cid \in DOMAIN sequence_to_batchslot_map_
      \/ cid \in DOMAIN sequence_to_backlog_map_)
  =>
  /\ errors' = errors
  /\ ready_batch_slots_' = ready_batch_slots_
  /\ backlog_queues_' = backlog_queues_
  /\ DOMAIN deques' = DOMAIN deques
  /\ IF cid \in DOMAIN sequence_to_batchslot_map_
     THEN /\ inflight' = inflight \cup
               {[payload |-> p, target |-> sequence_to_batchslot_map_[cid]]}
          /\ deques' = deques
          /\ sequence_to_backlog_map_' = sequence_to_backlog_map_
          /\ sequence_to_batchslot_map_' =
               IF p.seq_end
               THEN MapErase(sequence_to_batchslot_map_, cid)
               ELSE sequence_to_batchslot_map_
     ELSE /\ inflight' = inflight
          /\ deques' = [deques EXCEPT ![h] = Append(@, p)]
          /\ sequence_to_batchslot_map_' = sequence_to_batchslot_map_
          /\ sequence_to_backlog_map_' =
               IF p.seq_end
               THEN MapErase(sequence_to_backlog_map_, cid)
               ELSE sequence_to_backlog_map_

\* SequenceBatch::Enqueue puts the payload at the tail of its target's queue.
AppendAtTailStep ==
  (inflight' # inflight /\ accepted' = accepted) =>
    \E c \in inflight :
      /\ inflight' = inflight \ {c}
      /\ queues_' = [queues_ EXCEPT
                       ![c.target.batcher_idx_][c.target.slot_] =
                         Append(@, c.payload)]

\* An accepted END for the correlation ID cid is enqueued in this step.
EndEnqueued(cid) ==
  /\ accepted' # accepted
  /\ accepted'[Len(accepted')].correlation_id = cid
  /\ accepted'[Len(accepted')].seq_end

BindingStaysStep ==
  /\ \A cid \in DOMAIN sequence_to_batchslot_map_ :
       (\/ cid \notin DOMAIN sequence_to_batchslot_map_'
        \/ sequence_to_batchslot_map_'[cid] # sequence_to_batchslot_map_[cid])
       => EndEnqueued(cid)
  /\ \A cid \in DOMAIN sequence_to_backlog_map_ :
       (\/ cid \notin DOMAIN sequence_to_backlog_map_'
        \/ sequence_to_backlog_map_'[cid] # sequence_to_backlog_map_[cid])
       => (EndEnqueued(cid) \/ cid \in DOMAIN sequence_to_batchslot_map_')

StartOnInflight ==
  /\ [][StartOnInflightStep]_vars
  /\ [][AppendAtTailStep]_vars
  /\ [][BindingStaysStep]_vars

\* C11 witness: a slot's queue holds two payloads of one correlation ID,
\* the second with the START flag and the first without the END flag, and
\* no request was rejected.
StartOnInflightWitness ==
  /\ errors = {}
  /\ \E b \in Batchers : \E s \in Slots :
       /\ Len(queues_[b][s]) >= 2
       /\ queues_[b][s][2].seq_start
       /\ ~queues_[b][s][1].seq_end
       /\ queues_[b][s][1].correlation_id = queues_[b][s][2].correlation_id

(***************************************************************************)
(* C12. One-message round trip: when the only accepted request is a        *)
(* START|END request (a slot was free, the backlog empty) and a worker     *)
(* has put its payload into a batch, the pool holds all                    *)
(* runner_cnt * batch_size slots again, no slot is marked active and the   *)
(* correlation ID is a key of neither map.                                 *)
(***************************************************************************)
\* The payload with this id is an entry of a batch a worker has assembled.
Assembled(id) ==
  \/ \E b \in Batchers :
       /\ pc[b] \in {"sweep", "run"}
       /\ \E i \in 1 .. Len(payloads[b]) : payloads[b][i].id = id
  \/ \E d \in RealDeliveries : Entry(d).id = id

OneMessageRoundTrip ==
  (/\ Len(accepted) = 1
   /\ accepted[1].seq_start
   /\ accepted[1].seq_end
   /\ Assembled(accepted[1].id))
  =>
  /\ ready_batch_slots_ = AllBatchSlots
  /\ Cardinality(ready_batch_slots_) = runner_cnt * batch_size
  /\ \A b \in Batchers : \A s \in Slots : ~active_slots_[b][s]
  /\ accepted[1].correlation_id \notin DOMAIN sequence_to_batchslot_map_
  /\ accepted[1].correlation_id \notin DOMAIN sequence_to_backlog_map_
  /\ backlog_queues_ = <<>>

\* C12 witness: the batch with the only accepted START|END payload was
\* handed to OnSchedule_ by a scheduler with two slots.
OneMessageRoundTripWitness ==
  /\ Len(accepted) = 1
  /\ accepted[1].seq_start
  /\ accepted[1].seq_end
  /\ \E d \in RealDeliveries : Entry(d).id = accepted[1].id
  /\ runner_cnt * batch_size = 2

(***************************************************************************)
(* C13. One sequence of three requests, as amended: with runner_cnt = 1    *)
(* and batch_size = 2, when the only three Enqueue calls are START,        *)
(* continuation and END of one correlation ID, made one after the other,   *)
(* and the END batch was handed to OnSchedule_, then exactly three batches *)
(* were handed over; each holds exactly one real payload, as its last      *)
(* entry, the three in the order of the calls with overrides START,        *)
(* CONTINUE, CONTINUE; the three batches have the same width, 1 or 2, and  *)
(* a batch of width 2 has a NOT-READY placeholder at index 1; the slot is  *)
(* back in the pool.                                                       *)
(***************************************************************************)
\* The three calls of the scenario were made and the END was delivered.
ThreeRequestSequence ==
  /\ runner_cnt = 1
  /\ batch_size = 2
  /\ ncalls = 3
  /\ Len(accepted) = 3
  /\ accepted[1].seq_start /\ ~accepted[1].seq_end
  /\ ~accepted[2].seq_start /\ ~accepted[2].seq_end
  /\ ~accepted[3].seq_start /\ accepted[3].seq_end
  /\ accepted[2].correlation_id = accepted[1].correlation_id
  /\ accepted[3].correlation_id = accepted[1].correlation_id
  /\ \E d \in RealDeliveries : Entry(d).id = accepted[3].id

\* Batch i, of width w, carries request i as its last entry.
ThreeRequestBatch(i, w) ==
  LET batch == log[i].payloads IN
  /\ Len(batch) = w
  /\ batch[w].complete_function_
  /\ batch[w].id = accepted[i].id
  /\ batch[w].input_override =
       IF i = 1 THEN [START |-> TRUE, READY |-> TRUE]
                ELSE [START |-> FALSE, READY |-> TRUE]
  /\ \A j \in 1 .. w - 1 :
       /\ ~batch[j].complete_function_
       /\ batch[j].input_override = [START |-> FALSE, READY |-> FALSE]

PromotionStep ==
  LET moved == deques[Head(backlog_queues_)]
      back == moved[Len(moved)]
      cid == back.correlation_id
  IN
  (Len(backlog_queues_') < Len(backlog_queues_)) =>
    \E b \in Batchers :
      LET t == BatchSlot(b, slot[b]) IN
      /\ pc[b] = "sweep"
      /\ slot'[b] = slot[b] + 1
      /\ backlog_queues_' = Tail(backlog_queues_)
      /\ queues_' = [queues_ EXCEPT ![b][slot[b]] = moved]
      /\ ready_batch_slots_' = ready_batch_slots_
      /\ t \notin ready_batch_slots_
      /\ IF ~back.seq_end
         THEN /\ sequence_to_backlog_map_' =
                   MapErase(sequence_to_backlog_map_, cid)
              /\ cid \notin DOMAIN sequence_to_backlog_map_'
              /\ sequence_to_batchslot_map_' =
                   MapPut(sequence_to_batchslot_map_, cid, t)
              /\ sequence_to_batchslot_map_'[cid] = t
         ELSE /\ sequence_to_backlog_map_' = sequence_to_backlog_map_
              /\ sequence_to_batchslot_map_' = sequence_to_batchslot_map_
              /\ t \notin MapRange(sequence_to_batchslot_map_')

RoutedToBoundSlotStep ==
  LET p == accepted'[Len(accepted')] IN
  (accepted' # accepted
   /\ p.correlation_id \in DOMAIN sequence_to_batchslot_map_)
  => inflight' = inflight \cup
       {[payload |-> p,
         target |-> sequence_to_batchslot_map_[p.correlation_id]]}

\* q came from a backlog queue, p of the same sequence was routed to a slot.
PromotedThenRouted(q, p) ==
  /\ q.id \in backlogged
  /\ p.id \notin backlogged
  /\ SameSequence(q, p)

PromotedFirst ==
  \A q \in AcceptedSet : \A p \in AcceptedSet :
    PromotedThenRouted(q, p) =>
      /\ \A h \in DOMAIN deques : q \notin QueueSet(deques[h])
      /\ \A b \in Batchers : \A s \in Slots :
           \A i \in 1 .. Len(queues_[b][s]) :
             queues_[b][s][i] = p =>
               \/ \E j \in 1 .. (i - 1) : queues_[b][s][j] = q
               \/ Assembled(q.id)
      /\ \A dp \in RealDeliveries :
           Entry(dp).id = p.id =>
             \E dq \in RealDeliveries :
               Entry(dq).id = q.id /\ dq[1] < dp[1]

ContinuationAfterPromotion ==
  /\ [][PromotionStep]_vars
  /\ [][RoutedToBoundSlotStep]_vars
  /\ []PromotedFirst

\* C14 witness: a payload routed to the slot of a promoted sequence was
\* handed to OnSchedule_ (after the payload that came from the backlog).
ContinuationAfterPromotionWitness ==
  \E q \in AcceptedSet : \E p \in AcceptedSet :
    /\ PromotedThenRouted(q, p)
    /\ \E dp \in RealDeliveries : Entry(dp).id = p.id

(***************************************************************************)
(* C15. Payload conservation, for Enqueue calls that do not overlap for    *)
(* one correlation ID: every accepted payload is at every moment in        *)
(* exactly one place, once: on its way to a slot queue, in a slot queue,   *)
(* in a backlog queue, in the batch a worker is assembling or in a batch   *)
(* handed to OnSchedule_; so it is handed over at most once and never      *)
(* dropped or overwritten.  The slot queue that a promoted backlog queue   *)
(* replaces holds nothing but the END payload being popped.                *)
(***************************************************************************)
Occurrences(q, id) == Cardinality({i \in 1 .. Len(q) : q[i].id = id})

RECURSIVE SumOver(_, _)
SumOver(S, f) ==
  IF S = {} THEN 0
  ELSE LET x == CHOOSE y \in S : TRUE IN f[x] + SumOver(S \ {x}, f)

Places(id) ==
  Cardinality({c \in inflight : c.payload.id = id})
  + SumOver(Batchers \X Slots,
            [t \in Batchers \X Slots |-> Occurrences(queues_[t[1]][t[2]], id)])
  + SumOver(DOMAIN deques, [h \in DOMAIN deques |-> Occurrences(deques[h], id)])
  + SumOver({b \in Batchers : pc[b] \in {"sweep", "run"}},
            [b \in Batchers |-> Occurrences(payloads[b], id)])
  + SumOver(1 .. Len(log),
            [i \in 1 .. Len(log) |-> Occurrences(log[i].payloads, id)])

ExactlyOnePlace == \A p \in AcceptedSet : Places(p.id) = 1

TransplantStep ==
  (Len(backlog_queues_') < Len(backlog_queues_)) =>
    \E b \in Batchers :
      /\ pc[b] = "sweep"
      /\ slot'[b] = slot[b] + 1
      /\ Len(queues_[b][slot[b]]) = 1
      /\ queues_[b][slot[b]][1].seq_end

PayloadConservation ==
  /\ []ExactlyOnePlace
  /\ [][TransplantStep]_vars

\* C15 witness: three payloads were accepted, one of them through a
\* backlog queue, and all three were handed to OnSchedule_.
PayloadConservationWitness ==
  /\ Len(accepted) = 3
  /\ backlogged # {}
  /\ \A p \in AcceptedSet : \E d \in RealDeliveries : Entry(d).id = p.id

(***************************************************************************)
(* C16. Backlog progress: when the worker threads keep running, every      *)
(* Enqueue call returns, and no correlation ID stays bound to a slot for   *)
(* ever (the END of every sequence that holds a slot is enqueued), every   *)
(* payload that is in a backlog queue is eventually in a batch handed to   *)
(* OnSchedule_.                                                            *)
(***************************************************************************)
InBacklog(id) ==
  \E h \in DOMAIN deques : \E i \in 1 .. Len(deques[h]) : deques[h][i].id = id

Delivered(id) == \E d \in RealDeliveries : Entry(d).id = id

EverySequenceEnds ==
  \A cid \in 1 .. MaxCid : []<>(cid \notin DOMAIN sequence_to_batchslot_map_)

BacklogProgress ==
  EverySequenceEnds =>
    \A id \in 1 .. MaxEnq : InBacklog(id) ~> Delivered(id)

\* C16 witness: a payload that Enqueue put in a backlog queue was handed
\* to OnSchedule_ and no correlation ID is bound to a slot.
BacklogProgressWitness ==
  /\ \E id \in backlogged : Delivered(id)
  /\ DOMAIN sequence_to_batchslot_map_ = {}

(***************************************************************************)
(* C17. Serial execution per sequence: no batch handed to OnSchedule_      *)
(* holds two payloads of one sequence; with runner_cnt = 1 and             *)
(* batch_size = 1 every batch is one real payload, and the batches of one  *)
(* sequence are consecutive: no payload of another sequence is handed      *)
(* over between two payloads of one sequence.                              *)
(***************************************************************************)
OnePayloadPerSequence ==
  \A d \in RealDeliveries : \A e \in RealDeliveries :
    (d[1] = e[1] /\ d[2] # e[2]) =>
      ~SameSequence(Request(Entry(d).id), Request(Entry(e).id))

SingleSlotBatches ==
  (runner_cnt = 1 /\ batch_size = 1) =>
    \A i \in 1 .. Len(log) :
      /\ Len(log[i].payloads) = 1
      /\ log[i].payloads[1].complete_function_

ConsecutiveBatches ==
  (runner_cnt = 1 /\ batch_size = 1) =>
    \A i \in 1 .. Len(log) : \A j \in 1 .. Len(log) : \A k \in 1 .. Len(log) :
      LET pi == Request(log[i].payloads[1].id)
          pj == Request(log[j].payloads[1].id)
          pk == Request(log[k].payloads[1].id)
      IN
      (i < j /\ j < k /\ (SameSequence(pi, pk) \/ SameSequence(pk, pi))) =>
        (SameSequence(pi, pj) \/ SameSequence(pj, pi))

SerialExecution ==
  /\ OnePayloadPerSequence
  /\ SingleSlotBatches
  /\ ConsecutiveBatches

(***************************************************************************)
(* C18. Append while the slot is held: when SequenceBatch::Enqueue appends *)
(* a payload that Enqueue routed to a slot, the slot is not in the pool,   *)
(* is bound to no other correlation ID, and its queue holds no END payload *)
(* and no payload of another sequence.                                     *)
(***************************************************************************)
SlotHeldFor(c) ==
  LET t == c.target
      q == queues_[t.batcher_idx_][t.slot_]
  IN
  /\ t \notin ready_batch_slots_
  /\ \A cid \in DOMAIN sequence_to_batchslot_map_ :
       sequence_to_batchslot_map_[cid] = t => cid = c.payload.correlation_id
  /\ \A x \in QueueSet(q) :
       /\ ~x.seq_end
       /\ SameSequence(x, c.payload) \/ SameSequence(c.payload, x)

AppendWhileHeldStep ==
  \A c \in inflight :
    (inflight' = inflight \ {c} /\ accepted' = accepted) => SlotHeldFor(c)

AppendWhileHeld == [][AppendWhileHeldStep]_vars

(***************************************************************************)
(* C19. Lock ordering of the worker, as amended: the worker runs the       *)
(* critical section of ReleaseBatchSlot (scheduler mutex) while it holds   *)
(* its own batch mutex, which it took at the top of the sweep and gives    *)
(* up only after it; the order is batch mutex, then scheduler mutex.  The  *)
(* reverse never happens: the step that appends to a slot queue under a    *)
(* batch mutex leaves everything the scheduler mutex protects unchanged,   *)
(* and Enqueue's critical section changes nothing a batch mutex protects.  *)
(***************************************************************************)
\* A step that contains a ReleaseBatchSlot critical section: the backlog
\* list loses its head or the pool gains a slot.
ReleaseCriticalSection ==
  \/ Len(backlog_queues_') < Len(backlog_queues_)
  \/ \E t \in ready_batch_slots_' : t \notin ready_batch_slots_

\* The worker whose sweep moves on in this step.
Sweeping(b) == pc[b] = "sweep" /\ slot'[b] = slot[b] + 1

ReleaseUnderBatchMutexStep ==
  ReleaseCriticalSection =>
    \E b \in Batchers :
      /\ Sweeping(b)
      /\ ~BatchMutexFree(b)
      /\ ~BatchMutexFree(b)'

ProducerLocksApartStep ==
  /\ (inflight' # inflight /\ accepted' = accepted) => UNCHANGED schedVars
  /\ (ncalls' # ncalls) => UNCHANGED batchVars

WorkerLockOrder ==
  /\ [][ReleaseUnderBatchMutexStep]_vars
  /\ [][ProducerLocksApartStep]_vars

\* C19 witness: a slot was released to the pool or to a backlog queue by a
\* worker that is still in its sweep, the batch mutex held.
WorkerLockOrderWitness ==
  \E b \in Batchers :
    /\ pc[b] = "sweep"
    /\ ~BatchMutexFree(b)
    /\ slot[b] >= 1
    /\ payloads[b][slot[b]].seq_end
    /\ payloads[b][slot[b]].complete_function_

\* C19 as stated: the worker has released its batch mutex before the
\* critical section of ReleaseBatchSlot.
ReleaseAfterBatchMutexStep ==
  ReleaseCriticalSection =>
    \E b \in Batchers : Sweeping(b) /\ BatchMutexFree(b)

WorkerNeverHoldsBoth == [][ReleaseAfterBatchMutexStep]_vars

(***************************************************************************)
(* C20. No lock across callbacks: every OnComplete call that Enqueue makes *)
(* for a rejected request is made with the scheduler mutex not held, and   *)
(* a worker that is about to call OnSchedule_ does not hold its batch      *)
(* mutex.                                                                  *)
(***************************************************************************)
NoLockAcrossCallbacks ==
  /\ \A e \in errors : ~e.locked
  /\ \A b \in Batchers : pc[b] = "run" => BatchMutexFree(b)

(***************************************************************************)
(* C21. Deadlock freedom: no thread waits for a batch mutex while it owns  *)
(* the scheduler mutex; every thread that waits for a mutex waits for one  *)
(* whose owner is not waiting, or waits only for a mutex whose owner is    *)
(* not waiting; so in no reachable state is every thread blocked.          *)
(***************************************************************************)
LockThreads == Producers \cup {WorkerThread(b) : b \in Batchers}

\* The owner of the mutex thread t is about to lock (0: t locks nothing
\* next, or the mutex is free).
AwaitedOwner(t) ==
  IF t \in Producers
  THEN IF lk_ppc[t] = "idle" THEN lk_mu
       ELSE IF lk_ppc[t] = "routed" THEN lk_batch_mu[lk_target[t]]
       ELSE 0
  ELSE LET b == t - MaxProducers - 1 IN
       IF lk_wpc[b] \in {"top", "wait"} THEN lk_batch_mu[b] ELSE 0

Blocked(t) == AwaitedOwner(t) # 0

WaitsForBatchMutex(t) ==
  IF t \in Producers THEN lk_ppc[t] = "routed"
  ELSE lk_wpc[t - MaxProducers - 1] \in {"top", "wait"}

NoBatchWaitUnderSchedulerMutex ==
  \A t \in LockThreads : WaitsForBatchMutex(t) => lk_mu # t

WaitChainEnds ==
  \A t \in LockThreads :
    Blocked(t) =>
      \/ ~Blocked(AwaitedOwner(t))
      \/ ~Blocked(AwaitedOwner(AwaitedOwner(t)))

DeadlockFreedom ==
  /\ NoBatchWaitUnderSchedulerMutex
  /\ WaitChainEnds
  /\ \E t \in LockThreads : ~Blocked(t)

\* C21 witness: a producer waits for the batch mutex held by a worker that
\* is inside ReleaseBatchSlot, the other producer waits for the scheduler
\* mutex.
DeadlockFreedomWitness ==
  \E p \in Producers : \E q \in Producers : \E b \in Batchers :
    /\ lk_ppc[p] = "routed" /\ lk_target[p] = b
    /\ lk_wpc[b] = "release"
    /\ lk_ppc[q] = "idle"
    /\ Blocked(p) /\ Blocked(q)

(***************************************************************************)
(* C22. No stranded work: when the worker threads keep running and every   *)
(* Enqueue call returns, every payload that is in a slot queue is          *)
(* eventually in a batch handed to OnSchedule_.  (The worker's wait ends   *)
(* by its timeout, whether or not a notification arrives.)                 *)
(***************************************************************************)
InSlotQueue(id) ==
  \E b \in Batchers : \E s \in Slots :
    \E i \in 1 .. Len(queues_[b][s]) : queues_[b][s][i].id = id

NoStrandedWork == \A id \in 1 .. MaxEnq : InSlotQueue(id) ~> Delivered(id)

(***************************************************************************)
(* C23. Termination: once the destructor has set scheduler_thread_exit_,   *)
(* the worker thread eventually leaves its loop and the join returns,      *)
(* whether the worker was waiting or not when the flag was set; the        *)
(* worker leaves only from the top of its loop, so a batch it has          *)
(* assembled is handed to OnSchedule_ before it exits.                     *)
(***************************************************************************)
AssembledIsHandedOverStep ==
  \A b \in Batchers :
    /\ (pc[b] = "run" /\ pc'[b] # "run") =>
         /\ log' = Append(log, [batcher_idx |-> b, payloads |-> payloads[b]])
         /\ pc'[b] = "loop"
    /\ (pc[b] = "sweep" /\ pc'[b] # "sweep") => pc'[b] = "run"
    /\ (pc[b] # "exit" /\ pc'[b] = "exit") => pc[b] = "loop"
    /\ pc[b] = "exit" => pc'[b] = "exit"

Termination ==
  /\ \A b \in 0 .. (MaxRunnerCnt - 1) :
       (b \in Batchers /\ scheduler_thread_exit_[b]) ~>
         (b \in Batchers /\ Joined(b))
  /\ [][AssembledIsHandedOverStep]_vars

\* C23 witness: the worker has left and the join has returned; the worker
\* did not lock its mutex after the flag was set (it was not waiting), and
\* the last batch handed to OnSchedule_ is its own.
TerminationWitness ==
  \E b \in Batchers :
    /\ Joined(b)
    /\ ~exit_sync[b]
    /\ Len(log) >= 1
    /\ log[Len(log)].batcher_idx = b

(***************************************************************************)
(* C24. max_active_slot_ is exact: whenever the batch mutex of a batcher   *)
(* is free, max_active_slot_ is the largest index of a slot with           *)
(* active_slots_ true, or -1 when no slot is active.                       *)
(***************************************************************************)
ActiveIndexes(b) == {s \in Slots : active_slots_[b][s]}

MaxActiveSlotExact ==
  \A b \in Batchers :
    BatchMutexFree(b) =>
      /\ ActiveIndexes(b) = {} => max_active_slot_[b] = -1
      /\ ActiveIndexes(b) # {} =>
           /\ max_active_slot_[b] \in ActiveIndexes(b)
           /\ \A s \in ActiveIndexes(b) : s <= max_active_slot_[b]

\* C24 witness: after a sweep in which the sequences of both slots of a
\* batcher ended and both slots went back to the pool, no slot is active.
MaxActiveSlotExactWitness ==
  \E b \in Batchers :
    /\ batch_size = 2
    /\ pc[b] = "run"
    /\ Len(payloads[b]) = 2
    /\ payloads[b][1].seq_end /\ payloads[b][1].complete_function_
    /\ payloads[b][2].seq_end /\ payloads[b][2].complete_function_
    /\ ActiveIndexes(b) = {}
    /\ max_active_slot_[b] = -1

(***************************************************************************)
(* C25. Queued work is visible to the worker: whenever the batch mutex of  *)
(* a batcher is free, every slot of it with a non-empty queue has its      *)
(* active bit set and an index <= max_active_slot_; so when                *)
(* max_active_slot_ = -1 all queues of the batcher are empty.              *)
(***************************************************************************)
QueuedWorkVisible ==
  \A b \in Batchers :
    BatchMutexFree(b) =>
      \A s \in Slots :
        queues_[b][s] # <<>> =>
          /\ active_slots_[b][s]
          /\ s <= max_active_slot_[b]

(***************************************************************************)
(* C26. null_request_header_ is captured once: once a batcher holds the    *)
(* header of a request, no later step changes it (0 stands for the header  *)
(* before the first capture).                                              *)
(***************************************************************************)
NullHeaderKeptStep ==
  \A b \in Batchers :
    null_request_header_[b] # 0 =>
      null_request_header_'[b] = null_request_header_[b]

NullHeaderCapturedOnce == [][NullHeaderKeptStep]_vars

(***************************************************************************)
(* C27. Status delivered on completion: when the completion function of a  *)
(* batch has returned, the completion callback of every real payload was   *)
(* called exactly once, in the order of the slots, and no other callback   *)
(* was called; the status passed is the batch status if that is not OK;    *)
(* otherwise the error of the first placeholder that has one (its own      *)
(* status if not OK, else its compute status), if there is such a          *)
(* placeholder; otherwise the payload's own status if not OK, else its     *)
(* compute status.                                                         *)
(***************************************************************************)
RealIndexes ==
  {i \in 1 .. Len(cq_payloads) : cq_payloads[i].complete_function_}

OwnError(e) == IF e.status_ # 0 THEN e.status_ ELSE e.compute_status_

FailedPlaceholders ==
  {i \in 1 .. Len(cq_payloads) :
     ~cq_payloads[i].complete_function_ /\ OwnError(cq_payloads[i]) # 0}

FirstFailedPlaceholder ==
  CHOOSE i \in FailedPlaceholders : \A k \in FailedPlaceholders : i <= k

DeliveredStatus(i) ==
  IF cq_arg # 0 THEN cq_arg
  ELSE IF FailedPlaceholders # {}
       THEN OwnError(cq_payloads[FirstFailedPlaceholder])
       ELSE OwnError(cq_payloads[i])

StatusOnCompletion ==
  cq_pc = "done" =>
    /\ Len(cq_calls) = Cardinality(RealIndexes)
    /\ \A k \in 1 .. Len(cq_calls) :
         /\ cq_calls[k].index \in RealIndexes
         /\ cq_calls[k].status = DeliveredStatus(cq_calls[k].index)
         /\ \A j \in 1 .. (k - 1) : cq_calls[j].index < cq_calls[k].index

\* C27 witness: the batch status was OK, a placeholder had an error and
\* the real payload, which had another error of its own, was completed
\* with the placeholder's.
StatusOnCompletionWitness ==
  /\ cq_pc = "done"
  /\ cq_arg = 0
  /\ FailedPlaceholders # {}
  /\ \E k \in 1 .. Len(cq_calls) :
       /\ cq_payloads[cq_calls[k].index].status_ # 0
       /\ cq_calls[k].status # cq_payloads[cq_calls[k].index].status_

(***************************************************************************)
(* C28. ReleaseBatchSlot promotes in FIFO order: a worker step that pops   *)
(* an END payload puts the slot into the pool and clears its active bit    *)
(* (ReleaseBatchSlot returned true) exactly when the backlog list is       *)
(* empty; otherwise it removes the head of the list, makes the payloads    *)
(* of that queue, in their order, the queue of the slot, and leaves the    *)
(* pool, the active bit and the other backlog queues as they are.  No      *)
(* other step adds a slot to the pool or removes a backlog queue.  The     *)
(* list holds the queues in the order of their creation, so they are       *)
(* promoted in that order.                                                 *)
(***************************************************************************)
\* Worker b pops an END payload from the slot its sweep is at.
PopsEnd(b) ==
  /\ pc[b] = "sweep"
  /\ slot'[b] = slot[b] + 1
  /\ queues_[b][slot[b]] # <<>>
  /\ Head(queues_[b][slot[b]]).seq_end

ReleaseStep ==
  \A b \in Batchers :
    PopsEnd(b) =>
      LET s == slot[b]
          t == BatchSlot(b, s)
          h == Head(backlog_queues_)
      IN
      IF backlog_queues_ = <<>>
      THEN /\ ready_batch_slots_' = ready_batch_slots_ \cup {t}
           /\ backlog_queues_' = <<>>
           /\ ~active_slots_'[b][s]
           /\ queues_'[b][s] = Tail(queues_[b][s])
      ELSE /\ ready_batch_slots_' = ready_batch_slots_
           /\ backlog_queues_' = Tail(backlog_queues_)
           /\ queues_'[b][s] = deques[h]
           /\ active_slots_' = active_slots_
           /\ \A i \in 2 .. Len(backlog_queues_) :
                deques'[backlog_queues_[i]] = deques[backlog_queues_[i]]

OnlyReleaseStep ==
  ((\E t \in ready_batch_slots_' : t \notin ready_batch_slots_)
   \/ Len(backlog_queues_') < Len(backlog_queues_))
  => \E b \in Batchers : PopsEnd(b)

\* The handle of a backlog queue is the number of the call that created it.
BacklogInCreationOrder ==
  \A i \in 1 .. Len(backlog_queues_) : \A j \in 1 .. Len(backlog_queues_) :
    i < j => backlog_queues_[i] < backlog_queues_[j]

ReleaseFIFO ==
  /\ [][ReleaseStep]_vars
  /\ [][OnlyReleaseStep]_vars
  /\ []BacklogInCreationOrder

\* C28 witness: of two backlog queues the one created first was promoted:
\* it is the queue of a slot, the other is still in the backlog list.
ReleaseFIFOWitness ==
  /\ Len(backlog_queues_) = 1
  /\ \E b \in Batchers : \E s \in Slots :
       /\ queues_[b][s] # <<>>
       /\ Head(queues_[b][s]).id \in backlogged
       /\ Head(queues_[b][s]).id < backlog_queues_[1]

(***************************************************************************)
(* C29. No sequence waits while a slot is free: whenever the scheduler     *)
(* mutex is free, a non-empty pool of ready slots means that the backlog   *)
(* list and the map from correlation ID to backlog queue are both empty;   *)
(* and every queue of the backlog list is non-empty and holds payloads of  *)
(* one correlation ID only.  Every action is one critical section of the   *)
(* scheduler mutex, so the mutex is free in every state.                   *)
(***************************************************************************)
BacklogQueueWellFormed(h) ==
  /\ deques[h] # <<>>
  /\ \A i \in 1 .. Len(deques[h]) :
       deques[h][i].correlation_id = deques[h][1].correlation_id

NoWaitWhileSlotFree ==
  /\ ready_batch_slots_ # {} =>
       /\ backlog_queues_ = <<>>
       /\ DOMAIN sequence_to_backlog_map_ = {}
  /\ \A k \in 1 .. Len(backlog_queues_) :
       BacklogQueueWellFormed(backlog_queues_[k])

\* C29 witness: a slot is in the pool again after a sequence waited in the
\* backlog, so the backlog was emptied by promotions before the slot was freed.
NoWaitWhileSlotFreeWitness ==
  /\ ready_batch_slots_ # {}
  /\ backlogged # {}
  /\ \E id \in backlogged : Delivered(id)

====
